---- MODULE Spec2Model ----
(***************************************************************************)
(* MediMind RAG core: the two edge functions (process-document and         *)
(* generate-summary) running as concurrent, stateless requests against the *)
(* shared tables reports, summaries and report_chunks.                     *)
(*                                                                         *)
(* Abstractions:                                                           *)
(*  - a text is represented by its length in characters; a chunk by its    *)
(*    index and character offsets;                                         *)
(*  - an embedding is represented by the cosine similarity (in percent)    *)
(*    it has to the fixed retrieval query of its document;                 *)
(*  - every external call (data store, storage, embedding provider,        *)
(*    HuggingFace, generative model) may succeed or fail; the outcome is   *)
(*    an input of the step that awaits it;                                 *)
(*  - a request executes one step per awaited call that touches shared     *)
(*    state; the code between two such awaits belongs to the later step.   *)
(*                                                                         *)
(* Spec and SeqSpec are the two functions as requests.  ChunkSpec and      *)
(* ChunkLive (chunkText), QuerySpec (search_similar_chunks) and ParseSpec  *)
(* (parseGeminiResponse, over texts as sequences of tokens, and the upsert *)
(* of its result) run one function on its own over drawn arguments.        *)
(* UploadSpec is handleUpload of the upload page calling the two functions.*)
(***************************************************************************)
EXTENDS Integers, Sequences, FiniteSets

\* ------------------------------------------------------------------ sets

\* report ids a client may send; a report row exists once it was uploaded
DocIds == {"d1"}

\* concurrent invocations the hosting runtime runs side by side
Reqs == {"r1", "r2"}

\* lengths (characters) of the text of an uploaded file: an empty file and a
\* file of two chunks
FileLengths == {0, 1500}

\* number of distinct responses the generative model may give
NumTexts == 2

\* the responses of the generative model
Texts == 1..NumTexts

\* similarities (percent) the embedding of a chunk may have to the query
Sims == {70, 90}

\* process-document: chunkText(documentText, 1000, 200)
ChunkSize == 1000

ChunkOverlap == 200

\* length of the sample text process-document substitutes for an unreadable file
SampleLength == 560

\* retrieveContext: match_threshold 0.7 (in percent) and match_count 5
MatchThreshold == 70

MatchCount == 5

\* error messages a response can carry
NotFound == "no rows returned"

StoreError == "data store request failed"

UniqueViolation == "duplicate key value violates unique constraint"

ForeignKeyViolation == "violates foreign key constraint"

KeyMissing == "GEMINI_API_KEY not configured"

GeminiError == "Gemini API error"

Min(a, b) == IF a < b THEN a ELSE b

\* ------------------------------------------------------------- chunkText

\* the end of the window with the clamp to the text length left out
EndIndex_NoClamp(startIndex, chunkSize, len) == startIndex + chunkSize

\* const endIndex = Math.min(startIndex + chunkSize, text.length)
EndIndex(startIndex, chunkSize, len) == Min(startIndex + chunkSize, len)

\* the window moved forward by size plus overlap
NextStart_Gap(startIndex, chunkSize, overlap) == startIndex + chunkSize + overlap

\* the window not moved at all
NextStart_NoAdvance(startIndex, chunkSize, overlap) == startIndex

\* startIndex += chunkSize - overlap
NextStart(startIndex, chunkSize, overlap) == startIndex + chunkSize - overlap

\* chunks.push({content, index, metadata: {start_char, end_char, length}});
\* the content is text.slice(startIndex, endIndex), given by its offsets
ChunkData(len, chunkSize, startIndex, chunkIndex) ==
    LET endIndex == EndIndex(startIndex, chunkSize, len)
    IN  [index |-> chunkIndex,
         start_char |-> startIndex,
         end_char |-> endIndex,
         length |-> endIndex - startIndex]

RECURSIVE ChunkLoop(_, _, _, _, _)
\* the while loop of chunkText, from (startIndex, chunkIndex) on
ChunkLoop(len, chunkSize, overlap, startIndex, chunkIndex) ==
    IF startIndex < len
    THEN <<ChunkData(len, chunkSize, startIndex, chunkIndex)>>
         \o ChunkLoop(len, chunkSize, overlap,
                      NextStart(startIndex, chunkSize, overlap), chunkIndex + 1)
    ELSE <<>>

chunkText(len, chunkSize, overlap) == ChunkLoop(len, chunkSize, overlap, 0, 0)

\* -------------------------------------------------------- data store

\* gen_random_uuid(): an id no row of the table has
gen_random_uuid(rows) ==
    CHOOSE i \in 1..(Cardinality(rows) + 1) : \A x \in rows : x.id # i

\* reports: update({status}).eq('id', id); a rejected write changes nothing
UpdateStatus(rep, id, st, storeOk) ==
    IF storeOk
    THEN [d \in DOMAIN rep |-> IF d = id THEN st ELSE rep[d]]
    ELSE rep

\* summaries: an insert that ignores UNIQUE(report_id)
UpsertSummary_NoUnique(rows, rep, reportId, text, storeOk) ==
    IF ~storeOk
    THEN [error |-> StoreError, rows |-> rows]
    ELSE [error |-> "",
          rows |-> rows \cup {[id |-> gen_random_uuid(rows),
                               report_id |-> reportId,
                               full_summary |-> text]}]

\* an insert that ignores UNIQUE(report_id) and does not report the failure
\* of the request to the store
UpsertSummary_ErrorDropped(rows, rep, reportId, text, storeOk) ==
    IF ~storeOk
    THEN [error |-> "", rows |-> rows]
    ELSE UpsertSummary_NoUnique(rows, rep, reportId, text, storeOk)

\* the summary of the report replaced by delete and insert, with the
\* failure of the request to the store reported after the rows were changed
UpsertSummary_ReplaceThenFail(rows, rep, reportId, text, storeOk) ==
    LET row == [id |-> gen_random_uuid(rows),
                report_id |-> reportId,
                full_summary |-> text]
    IN  [error |-> IF storeOk THEN "" ELSE StoreError,
         rows |-> {x \in rows : x.report_id # reportId} \cup {row}]

\* summaries.upsert({report_id, ...}) with no onConflict option: the values
\* carry no id, so the row gets a fresh default id; the conflict target of
\* the upsert is the primary key (id), and the UNIQUE constraint on
\* report_id and the foreign key to reports are checked as for an insert.
UpsertSummary(rows, rep, reportId, text, storeOk) ==
    LET row == [id |-> gen_random_uuid(rows),
                report_id |-> reportId,
                full_summary |-> text]
        others == {x \in rows : x.id # row.id}
    IN  IF ~storeOk
        THEN [error |-> StoreError, rows |-> rows]
        ELSE IF reportId \notin DOMAIN rep
        THEN [error |-> ForeignKeyViolation, rows |-> rows]
        ELSE IF \E x \in others : x.report_id = row.report_id
        THEN [error |-> UniqueViolation, rows |-> rows]
        ELSE [error |-> "", rows |-> others \cup {row}]

\* report_chunks: an insert that ignores UNIQUE(report_id, chunk_index)
InsertChunk_NoUnique(rows, reportId, chunk, sim, storeOk) ==
    IF ~storeOk
    THEN [error |-> StoreError, rows |-> rows]
    ELSE [error |-> "",
          rows |-> rows \cup {[id |-> gen_random_uuid(rows),
                               report_id |-> reportId,
                               chunk_index |-> chunk.index,
                               start_char |-> chunk.start_char,
                               end_char |-> chunk.end_char,
                               similarity |-> sim]}]

\* the insert with the failure of the request to the store not reported
InsertChunk_ErrorDropped(rows, reportId, chunk, sim, storeOk) ==
    IF ~storeOk
    THEN [error |-> "", rows |-> rows]
    ELSE InsertChunk_NoUnique(rows, reportId, chunk, sim, storeOk)

\* report_chunks.insert({report_id, chunk_index, content, embedding, metadata})
\* under UNIQUE(report_id, chunk_index)
InsertChunk(rows, reportId, chunk, sim, storeOk) ==
    IF ~storeOk
    THEN [error |-> StoreError, rows |-> rows]
    ELSE IF \E x \in rows : x.report_id = reportId /\ x.chunk_index = chunk.index
    THEN [error |-> UniqueViolation, rows |-> rows]
    ELSE [error |-> "",
          rows |-> rows \cup {[id |-> gen_random_uuid(rows),
                               report_id |-> reportId,
                               chunk_index |-> chunk.index,
                               start_char |-> chunk.start_char,
                               end_char |-> chunk.end_char,
                               similarity |-> sim]}]

\* the query with >= in place of > in the WHERE clause
search_similar_chunks_Inclusive(rows, match_threshold, match_count, filter_report_id) ==
    LET kept == {x \in rows :
                    /\ (filter_report_id = "NULL" \/ x.report_id = filter_report_id)
                    /\ x.similarity >= match_threshold}
        n == Min(match_count, Cardinality(kept))
    IN  {s \in [1..n -> kept] :
            /\ \A i, j \in 1..n : i < j => s[i] # s[j]
            /\ \A i, j \in 1..n : i < j => s[i].similarity >= s[j].similarity
            /\ \A x \in kept : (\A i \in 1..n : s[i] # x)
                                  => \A i \in 1..n : s[i].similarity >= x.similarity}

\* the query with the report filter left out of the WHERE clause
search_similar_chunks_NoFilter(rows, match_threshold, match_count, filter_report_id) ==
    LET kept == {x \in rows : x.similarity > match_threshold}
        n == Min(match_count, Cardinality(kept))
    IN  {s \in [1..n -> kept] :
            /\ \A i, j \in 1..n : i < j => s[i] # s[j]
            /\ \A i, j \in 1..n : i < j => s[i].similarity >= s[j].similarity
            /\ \A x \in kept : (\A i \in 1..n : s[i] # x)
                                  => \A i \in 1..n : s[i].similarity >= x.similarity}

\* the query with the ORDER BY left out: LIMIT keeps any match_count rows
search_similar_chunks_Unordered(rows, match_threshold, match_count, filter_report_id) ==
    LET kept == {x \in rows :
                    /\ (filter_report_id = "NULL" \/ x.report_id = filter_report_id)
                    /\ x.similarity > match_threshold}
        n == Min(match_count, Cardinality(kept))
    IN  {s \in [1..n -> kept] : \A i, j \in 1..n : i < j => s[i] # s[j]}

\* search_similar_chunks(query_embedding, match_threshold, match_count,
\* filter_report_id): the rows the WHERE clause keeps, ORDER BY distance
\* (descending similarity), LIMIT match_count.  The order of rows of equal
\* similarity is not fixed by the query, so the operator gives every result
\* the query may produce.  filter "NULL" stands for no filter.
search_similar_chunks(rows, match_threshold, match_count, filter_report_id) ==
    LET kept == {x \in rows :
                    /\ (filter_report_id = "NULL" \/ x.report_id = filter_report_id)
                    /\ x.similarity > match_threshold}
        n == Min(match_count, Cardinality(kept))
    IN  {s \in [1..n -> kept] :
            /\ \A i, j \in 1..n : i < j => s[i] # s[j]
            /\ \A i, j \in 1..n : i < j => s[i].similarity >= s[j].similarity
            /\ \A x \in kept : (\A i \in 1..n : s[i] # x)
                                  => \A i \in 1..n : s[i].similarity >= x.similarity}

\* ------------------------------------------------------- retrieveContext

\* the arguments retrieveContext gives to the rpc search_similar_chunks
RpcArgs(reportId) ==
    [match_threshold |-> MatchThreshold,
     match_count |-> MatchCount,
     filter_report_id |-> reportId]

\* supabaseClient.rpc('search_similar_chunks', {...}): the results the query
\* may give for the arguments
Rpc(rows, args) ==
    search_similar_chunks(rows, args.match_threshold, args.match_count,
                          args.filter_report_id)

\* retrieveContext with the embedding failure swallowed inside the function
retrieveContext_Swallow(embedOk, rpcOk, chunks) ==
    IF ~embedOk \/ ~rpcOk \/ Len(chunks) = 0
    THEN [raised |-> FALSE, context |-> <<>>]
    ELSE [raised |-> FALSE,
          context |-> [i \in 1..Len(chunks) |->
                          [label |-> i,
                           relevance |-> chunks[i].similarity,
                           chunk_index |-> chunks[i].chunk_index]]]

\* retrieveContext: the embedding call is awaited outside any try block, so
\* its error leaves the function as an exception; an rpc error and an empty
\* result give ''; otherwise one labelled block per chunk, in result order.
\* The context string is the sequence of its blocks, '' the empty sequence.
retrieveContext(embedOk, rpcOk, chunks) ==
    IF ~embedOk
    THEN [raised |-> TRUE, context |-> <<>>]
    ELSE IF ~rpcOk
    THEN [raised |-> FALSE, context |-> <<>>]
    ELSE IF Len(chunks) = 0
    THEN [raised |-> FALSE, context |-> <<>>]
    ELSE [raised |-> FALSE,
          context |-> [i \in 1..Len(chunks) |->
                          [label |-> i,
                           relevance |-> chunks[i].similarity,
                           chunk_index |-> chunks[i].chunk_index]]]

\* --------------------------------------------------------------- state

VARIABLES
    GEMINI_API_KEY,       \* whether the secret is set
    HUGGINGFACE_API_KEY,  \* whether the secret is set
    reports,              \* public.reports: report id -> status
    summaries,            \* public.summaries: set of rows
    report_chunks,        \* public.report_chunks: set of rows
    storage,              \* bucket medical-reports: report id -> length of the file's text
    req,                  \* the invocation each runtime slot is executing
    call                  \* the locals of a function called on its own

vars == <<GEMINI_API_KEY, HUGGINGFACE_API_KEY, reports, summaries,
          report_chunks, storage, req, call>>

\* no function is called on its own
NoCall == [fn |-> "none"]

NoResponse ==
    [status |-> 0, error |-> "", summary |-> 0, chunks_processed |-> 0,
     rag_enabled |-> FALSE]

\* JSON.stringify({ error: error.message }), status 500
ErrorResponse(message) == [NoResponse EXCEPT !.status = 500, !.error = message]

\* JSON.stringify({ success: true, summary: analysisData })
SummaryResponse(text) == [NoResponse EXCEPT !.status = 200, !.summary = text]

\* JSON.stringify({ success: true, chunks_processed, rag_enabled, message })
ProcessResponse(n, rag) ==
    [NoResponse EXCEPT !.status = 200, !.chunks_processed = n, !.rag_enabled = rag]

\* a slot that runs nothing; the locals of a handler at their initial values
Idle ==
    [fn |-> "none", reportId |-> "", pc |-> "idle",
     reportContent |-> 0,        \* length of the downloaded text, 0 for ''
     rag |-> "none",             \* how the retrieveContext call ended
     retrievedContext |-> <<>>,
     medicalInsights |-> FALSE,  \* whether the insights are non-null
     generatedText |-> 0,        \* 0 before the generative call
     documentLength |-> 0,       \* length of documentText
     next |-> 0,                 \* index of the chunk the for loop is at
     ended |-> "",               \* the stage at which the handler returned
     response |-> NoResponse]

\* the handler returns: its locals die, the response goes to the caller
Return(r, response) ==
    [Idle EXCEPT !.fn = req[r].fn, !.reportId = req[r].reportId,
                 !.pc = "done", !.ended = req[r].pc, !.response = response]

Free(r) == req[r].pc \in {"idle", "done"}

At(r, fn, pc) == req[r].fn = fn /\ req[r].pc = pc

Init ==
    /\ GEMINI_API_KEY \in BOOLEAN
    /\ HUGGINGFACE_API_KEY \in BOOLEAN
    /\ reports = [d \in {} |-> "uploaded"]
    /\ summaries = {}
    /\ report_chunks = {}
    /\ storage \in [DocIds -> FileLengths]
    /\ req = [r \in Reqs |-> Idle]
    /\ call = NoCall

\* ------------------------------------------------------------ upload

\* UploadReport: the client inserts the report row with status 'uploaded'
UploadReport(d) ==
    /\ d \notin DOMAIN reports
    /\ reports' = [x \in DOMAIN reports \cup {d} |->
                      IF x = d THEN "uploaded" ELSE reports[x]]
    /\ UNCHANGED <<GEMINI_API_KEY, HUGGINGFACE_API_KEY, storage, call, summaries,
                   report_chunks, req>>

\* ------------------------------------------------- generate-summary

\* the load with the missing row not reported as an error
LoadReport_NoCheck(rep, id, storeOk) ==
    IF ~storeOk THEN StoreError ELSE ""

\* reports.select('*').eq('id', id).single(): an error when the request to
\* the store fails or when no row has the id
LoadReport(rep, id, storeOk) ==
    IF ~storeOk THEN StoreError
    ELSE IF id \notin DOMAIN rep THEN NotFound
    ELSE ""

\* the request arrives and the report is loaded; reportError is thrown
GenerateSummary(r, id) ==
    /\ Free(r)
    /\ \E storeOk \in BOOLEAN :
        LET reportError == LoadReport(reports, id, storeOk)
            started == [Idle EXCEPT !.fn = "generate-summary", !.reportId = id]
        IN  req' = [req EXCEPT ![r] =
                IF reportError # ""
                THEN [started EXCEPT !.pc = "done", !.ended = "load",
                                     !.response = ErrorResponse(reportError)]
                ELSE [started EXCEPT !.pc = "processing"]]
    /\ UNCHANGED <<GEMINI_API_KEY, HUGGINGFACE_API_KEY, storage, call,
                   reports, summaries,
                   report_chunks>>

\* update status to processing; the result of the write is not looked at
SetProcessing(r) ==
    /\ At(r, "generate-summary", "processing")
    /\ \E storeOk \in BOOLEAN :
        reports' = UpdateStatus(reports, req[r].reportId, "processing", storeOk)
    /\ req' = [req EXCEPT ![r].pc = "fetch"]
    /\ UNCHANGED <<GEMINI_API_KEY, HUGGINGFACE_API_KEY, storage, call,
                   summaries, report_chunks>>

\* the content of the file: '' when the url has no path, the download fails
\* or reading throws
FetchContent(r) ==
    /\ At(r, "generate-summary", "fetch")
    /\ \E downloadOk \in BOOLEAN :
        req' = [req EXCEPT ![r].pc = "retrieve",
                           ![r].reportContent =
                               IF downloadOk /\ req[r].reportId \in DocIds
                               THEN storage[req[r].reportId] ELSE 0]
    /\ UNCHANGED <<GEMINI_API_KEY, HUGGINGFACE_API_KEY, storage, call,
                   reports, summaries,
                   report_chunks>>

\* the try block around retrieveContext with the catch removed: an exception
\* of retrieveContext reaches the handler's outer catch
RagStage_NoCatch(q, outcome) ==
    IF outcome.raised
    THEN [Idle EXCEPT !.fn = q.fn, !.reportId = q.reportId, !.pc = "done",
                      !.ended = q.pc, !.response = ErrorResponse(GeminiError)]
    ELSE [q EXCEPT !.pc = "augment", !.rag = "returned",
                   !.retrievedContext = outcome.context]

\* try { retrievedContext = await retrieveContext(...) } catch { log }: an
\* exception leaves retrievedContext at ''
RagStage(q, outcome) ==
    IF outcome.raised
    THEN [q EXCEPT !.pc = "augment", !.rag = "raised", !.retrievedContext = <<>>]
    ELSE [q EXCEPT !.pc = "augment", !.rag = "returned",
                   !.retrievedContext = outcome.context]

\* context retrieval, when the Gemini key is set
RetrieveContext(r) ==
    /\ At(r, "generate-summary", "retrieve")
    /\ IF GEMINI_API_KEY
       THEN \E embedOk, rpcOk \in BOOLEAN :
            \E chunks \in Rpc(report_chunks, RpcArgs(req[r].reportId)) :
                req' = [req EXCEPT ![r] =
                           RagStage(req[r], retrieveContext(embedOk, rpcOk, chunks))]
       ELSE req' = [req EXCEPT ![r].pc = "augment"]
    /\ UNCHANGED <<GEMINI_API_KEY, HUGGINGFACE_API_KEY, storage, call,
                   reports, summaries,
                   report_chunks>>

\* getMedicalInsights: null on a non-ok response or a failed request
getMedicalInsights(ok) == ok

\* domain insights, when the HuggingFace key is set and there is content
Augment(r) ==
    /\ At(r, "generate-summary", "augment")
    /\ IF HUGGINGFACE_API_KEY /\ req[r].reportContent # 0
       THEN \E ok \in BOOLEAN :
            req' = [req EXCEPT ![r].pc = "generate",
                               ![r].medicalInsights = getMedicalInsights(ok)]
       ELSE req' = [req EXCEPT ![r].pc = "generate"]
    /\ UNCHANGED <<GEMINI_API_KEY, HUGGINGFACE_API_KEY, storage, call,
                   reports, summaries,
                   report_chunks>>

\* the prompt is assembled and the generative model is called: the key must
\* be set and the response ok; the locals that only feed the prompt die here
Generate(r) ==
    /\ At(r, "generate-summary", "generate")
    /\ IF ~GEMINI_API_KEY
       THEN req' = [req EXCEPT ![r] = Return(r, ErrorResponse(KeyMissing))]
       ELSE \E ok \in BOOLEAN :
            IF ~ok
            THEN req' = [req EXCEPT ![r] = Return(r, ErrorResponse(GeminiError))]
            ELSE \E text \in Texts :
                 req' = [req EXCEPT ![r] =
                     [Idle EXCEPT !.fn = req[r].fn, !.reportId = req[r].reportId,
                                  !.pc = "persist", !.generatedText = text]]
    /\ UNCHANGED <<GEMINI_API_KEY, HUGGINGFACE_API_KEY, storage, call,
                   reports, summaries,
                   report_chunks>>

\* parseGeminiResponse: full_summary is the text
full_summary(text) == text

\* the summary is stored; summaryError is thrown
Persist(r) ==
    /\ At(r, "generate-summary", "persist")
    /\ \E storeOk \in BOOLEAN :
        LET res == UpsertSummary(summaries, reports, req[r].reportId,
                                 full_summary(req[r].generatedText), storeOk)
        IN  /\ summaries' = res.rows
            /\ req' = [req EXCEPT ![r] =
                   IF res.error # ""
                   THEN Return(r, ErrorResponse(res.error))
                   ELSE [req[r] EXCEPT !.pc = "completed"]]
    /\ UNCHANGED <<GEMINI_API_KEY, HUGGINGFACE_API_KEY, storage, call,
                   reports, report_chunks>>

\* update status to completed (the result is not looked at) and respond
SetCompleted(r) ==
    /\ At(r, "generate-summary", "completed")
    /\ \E storeOk \in BOOLEAN :
        reports' = UpdateStatus(reports, req[r].reportId, "completed", storeOk)
    /\ req' = [req EXCEPT ![r] =
           Return(r, SummaryResponse(full_summary(req[r].generatedText)))]
    /\ UNCHANGED <<GEMINI_API_KEY, HUGGINGFACE_API_KEY, storage, call,
                   summaries, report_chunks>>

\* ------------------------------------------------- process-document

\* the chunks of the run's documentText
Chunks(q) == chunkText(q.documentLength, ChunkSize, ChunkOverlap)

\* the catch block with the report marked as failed
ProcessCatch_MarksFailed(rep, id) == UpdateStatus(rep, id, "failed", TRUE)

\* catch (error): the error is logged and answered with status 500; the
\* block writes to no table, so the reports are what they were
ProcessCatch(rep, id) == rep

\* the request arrives: without the Gemini key it answers at once, with it
\* the report is loaded; reportError is thrown
ProcessDocument(r, id) ==
    /\ Free(r)
    /\ LET started == [Idle EXCEPT !.fn = "process-document", !.reportId = id]
       IN  IF ~GEMINI_API_KEY
           THEN /\ req' = [req EXCEPT ![r] =
                    [started EXCEPT !.pc = "done", !.ended = "key",
                                    !.response = ProcessResponse(0, FALSE)]]
                /\ UNCHANGED reports
           ELSE \E storeOk \in BOOLEAN :
                LET reportError == LoadReport(reports, id, storeOk)
                IN  IF reportError # ""
                    THEN /\ req' = [req EXCEPT ![r] =
                                [started EXCEPT !.pc = "done", !.ended = "load",
                                     !.response = ErrorResponse(reportError)]]
                         /\ reports' = ProcessCatch(reports, id)
                    ELSE /\ req' = [req EXCEPT ![r] =
                                [started EXCEPT !.pc = "extract"]]
                         /\ UNCHANGED reports
    /\ UNCHANGED <<GEMINI_API_KEY, HUGGINGFACE_API_KEY, storage, call,
                   summaries, report_chunks>>

\* extractTextFromFile, the sample text when it throws, and chunkText; with
\* no chunk the loop body never runs and the run reports success
ExtractText(r) ==
    /\ At(r, "process-document", "extract")
    /\ \E downloadOk \in BOOLEAN :
        LET q == [req[r] EXCEPT !.documentLength =
                     IF downloadOk THEN storage[req[r].reportId] ELSE SampleLength]
        IN  req' = [req EXCEPT ![r] =
                IF Len(Chunks(q)) = 0
                THEN [q EXCEPT !.pc = "done", !.ended = "extract",
                               !.response = ProcessResponse(0, TRUE)]
                ELSE [q EXCEPT !.pc = "chunk", !.next = 0]]
    /\ UNCHANGED <<GEMINI_API_KEY, HUGGINGFACE_API_KEY, storage, call,
                   reports, summaries,
                   report_chunks>>

\* one iteration of the for loop: the chunk is embedded, then inserted; an
\* embedding error or an insert error is thrown to the handler's catch
ProcessChunk(r) ==
    /\ At(r, "process-document", "chunk")
    /\ LET chunks == Chunks(req[r])
           chunk == chunks[req[r].next + 1]
       IN  \E embedOk, storeOk \in BOOLEAN : \E sim \in Sims :
           IF ~embedOk
           THEN /\ req' = [req EXCEPT ![r] = Return(r, ErrorResponse(GeminiError))]
                /\ reports' = ProcessCatch(reports, req[r].reportId)
                /\ UNCHANGED report_chunks
           ELSE LET res == InsertChunk(report_chunks, req[r].reportId, chunk,
                                       sim, storeOk)
                IN  /\ report_chunks' = res.rows
                    /\ reports' = IF res.error # ""
                                  THEN ProcessCatch(reports, req[r].reportId)
                                  ELSE reports
                    /\ req' = [req EXCEPT ![r] =
                           IF res.error # ""
                           THEN Return(r, ErrorResponse(res.error))
                           ELSE IF req[r].next + 1 = Len(chunks)
                           THEN Return(r, ProcessResponse(Len(chunks), TRUE))
                           ELSE [req[r] EXCEPT !.next = req[r].next + 1]]
    /\ UNCHANGED <<GEMINI_API_KEY, HUGGINGFACE_API_KEY, storage, call,
                   summaries>>

\* ------------------------------------------------------ specification

\* a request in flight takes its next step
Work ==
    \/ \E r \in Reqs : SetProcessing(r)
    \/ \E r \in Reqs : FetchContent(r)
    \/ \E r \in Reqs : RetrieveContext(r)
    \/ \E r \in Reqs : Augment(r)
    \/ \E r \in Reqs : Generate(r)
    \/ \E r \in Reqs : Persist(r)
    \/ \E r \in Reqs : SetCompleted(r)
    \/ \E r \in Reqs : ExtractText(r)
    \/ \E r \in Reqs : ProcessChunk(r)

Next ==
    \/ \E d \in DocIds : UploadReport(d)
    \/ \E r \in Reqs, id \in DocIds : GenerateSummary(r, id)
    \/ \E r \in Reqs, id \in DocIds : ProcessDocument(r, id)
    \/ Work

Spec == Init /\ [][Next]_vars

\* invocations made one after the other: a request arrives only when no
\* other is in flight
AllFree == \A r \in Reqs : Free(r)

SeqNext ==
    \/ \E d \in DocIds : UploadReport(d)
    \/ \E r \in Reqs, id \in DocIds : AllFree /\ GenerateSummary(r, id)
    \/ \E r \in Reqs, id \in DocIds : AllFree /\ ProcessDocument(r, id)
    \/ Work

SeqSpec == Init /\ [][SeqNext]_vars

\* --------------------------------------------- functions on their own

\* the tables, the secrets and the runtime slots when a function is called
\* on its own
Standalone ==
    /\ GEMINI_API_KEY = TRUE
    /\ HUGGINGFACE_API_KEY = TRUE
    /\ summaries = {}
    /\ storage = [d \in DocIds |-> 0]
    /\ req = [r \in Reqs |-> Idle]

\* ----------------------------------------------------- chunkText alone

\* longest text chunked with the small sizes
MaxTextLen == 8

\* largest of the small chunk sizes
MaxChunkSize == 4

\* lengths of the texts chunked with the sizes process-document uses
ScenarioLengths == {0, 1, 560, 800, 801, 900, 1000, 1001, 1500, 1700, 2400}

\* the arguments of a chunkText call: overlap below size
ChunkInputs ==
    {[text |-> n, chunkSize |-> c, overlap |-> o] :
        n \in 0..MaxTextLen, c \in 1..MaxChunkSize, o \in 0..(MaxChunkSize - 1)}
    \cup {[text |-> n, chunkSize |-> ChunkSize, overlap |-> ChunkOverlap] :
             n \in ScenarioLengths}

\* more iterations than any call of the model needs
MaxChunks == MaxTextLen + 1

\* chunkText is entered: const chunks = []; startIndex = 0; chunkIndex = 0
ChunkInit ==
    /\ Standalone
    /\ reports = [d \in {} |-> "uploaded"]
    /\ report_chunks = {}
    /\ \E in \in ChunkInputs :
        /\ in.overlap < in.chunkSize
        /\ call = [fn |-> "chunkText", pc |-> "while", text |-> in.text,
                   chunkSize |-> in.chunkSize, overlap |-> in.overlap,
                   startIndex |-> 0, chunkIndex |-> 0, chunks |-> <<>>]

\* one iteration of while (startIndex < text.length)
ChunkStep ==
    /\ call.pc = "while"
    /\ call.startIndex < call.text
    /\ call.chunkIndex < MaxChunks
    /\ call' = [call EXCEPT
           !.chunks = Append(@, ChunkData(call.text, call.chunkSize,
                                          call.startIndex, call.chunkIndex)),
           !.startIndex = NextStart(@, call.chunkSize, call.overlap),
           !.chunkIndex = @ + 1]
    /\ UNCHANGED <<GEMINI_API_KEY, HUGGINGFACE_API_KEY, reports, summaries,
                   report_chunks, storage, req>>

\* the loop condition is false: return chunks
ChunkReturn ==
    /\ call.pc = "while"
    /\ ~(call.startIndex < call.text)
    /\ call' = [call EXCEPT !.pc = "return"]
    /\ UNCHANGED <<GEMINI_API_KEY, HUGGINGFACE_API_KEY, reports, summaries,
                   report_chunks, storage, req>>

ChunkNext == ChunkStep \/ ChunkReturn

ChunkSpec == ChunkInit /\ [][ChunkNext]_vars

\* the call runs to its end: nothing suspends a synchronous function
ChunkLive == ChunkSpec /\ WF_vars(ChunkNext)

\* ------------------------------------------ search_similar_chunks alone

\* the reports that have chunks when the query is called on its own
ReportIds == {"d1", "d2"}

\* similarities (percent) of the stored chunks of the queried report
SimValues == {40, 68, 70, 75, 81, 92}

\* largest number of chunks of the queried report, the scenario apart
MaxRows == 3

\* five chunks of one report with similarities 0.92, 0.81, 0.75, 0.68, 0.40
ScenarioSims == <<92, 81, 75, 68, 40>>

\* similarities of the chunks of the other report
OtherSims == {<<>>, <<95>>, <<72, 95>>}

\* thresholds and limits the query is called with
Thresholds == {MatchThreshold, 75}

Limits == {1, 2, MatchCount}

\* the rows of a report whose chunk i - 1 has similarity sims[i]; firstId is
\* the id of the first row
ChunkRows(d, sims, firstId) ==
    {[id |-> firstId + i - 1,
      report_id |-> d,
      chunk_index |-> i - 1,
      start_char |-> (i - 1) * (ChunkSize - ChunkOverlap),
      end_char |-> (i - 1) * (ChunkSize - ChunkOverlap) + ChunkSize,
      similarity |-> sims[i]] : i \in 1..Len(sims)}

\* the sequences over S of length at most n
SeqsUpTo(S, n) == UNION {[1..k -> S] : k \in 0..n}

\* a table of chunks of two reports, before any call
QueryInit ==
    /\ Standalone
    /\ reports = [d \in ReportIds |-> "completed"]
    /\ \E sims \in SeqsUpTo(SimValues, MaxRows) \cup {ScenarioSims} :
       \E others \in OtherSims :
          report_chunks = ChunkRows("d1", sims, 1)
                          \cup ChunkRows("d2", others, Len(sims) + 1)
    /\ call = NoCall

\* the query is called with some arguments and gives one of its results
QuerySimilar ==
    /\ call = NoCall
    /\ \E t \in Thresholds, n \in Limits, f \in ReportIds \cup {"NULL"} :
       LET args == [match_threshold |-> t, match_count |-> n, filter_report_id |-> f]
       IN  \E chunks \in Rpc(report_chunks, args) :
             call' = [fn |-> "search_similar_chunks", reportId |-> f,
                      args |-> args, chunks |-> chunks]
    /\ UNCHANGED <<GEMINI_API_KEY, HUGGINGFACE_API_KEY, reports, summaries,
                   report_chunks, storage, req>>

\* retrieveContext(reportId, ...) makes its rpc call
RetrieverQuery ==
    /\ call = NoCall
    /\ \E reportId \in ReportIds :
       \E chunks \in Rpc(report_chunks, RpcArgs(reportId)) :
          call' = [fn |-> "retrieveContext", reportId |-> reportId,
                   args |-> RpcArgs(reportId), chunks |-> chunks]
    /\ UNCHANGED <<GEMINI_API_KEY, HUGGINGFACE_API_KEY, reports, summaries,
                   report_chunks, storage, req>>

QueryNext == QuerySimilar \/ RetrieverQuery

QuerySpec == QueryInit /\ [][QueryNext]_vars

\* -------------------------------------------- parseGeminiResponse alone

\* A response text is a sequence of tokens: a token is a character class
\* ("-" a bullet character, "1" a digit, "." ")" ":" " " "\n"), a word with
\* no header in it ("a", "b", "c", "p") or one of the words the regular
\* expressions look for.
KeyFindings == "key findings"

StepByStep == "step-by-step"

Reasoning == "reasoning"

Recommendations == "recommendations"

\* \s
Whitespace == {" ", "\n"}

\* [-•*\d.]
BulletChars == {"-", "1", "."}

\* [-•*\d.)\s]
StripChars == {"-", "1", ".", ")", " ", "\n"}

\* the header lines the prompt asks for
HeaderKF == <<KeyFindings, ":">>

HeaderRS == <<StepByStep, " ", Reasoning, ":">>

HeaderRC == <<Recommendations, ":">>

\* the bullet line "- <item>"
Bullet(item) == <<"-", " ">> \o item

\* items of bullet lines: a word, another word, a text that starts with a
\* number ("2 cm mass") and a text with the word reasoning in it
ItemTexts == {<<"a">>, <<"b">>, <<"1", " ", "a">>, <<"a", " ", Reasoning>>}

\* the lines a response is made of: headers, a line of prose, bullet lines
\* and a line of bullet characters only ("---")
Lines ==
    {HeaderKF, HeaderRS, HeaderRC, <<"p">>, <<"-", "-", "-">>}
    \cup {Bullet(item) : item \in ItemTexts}

\* most lines of a response, the scenario apart
MaxLines == 4

\* Key Findings:\n- a\n- b\nRecommendations:\n- c
ScenarioLines ==
    <<HeaderKF, Bullet(<<"a">>), Bullet(<<"b">>), HeaderRC, Bullet(<<"c">>)>>

RECURSIVE Join(_)
\* the text whose lines are given: lines.join('\n')
Join(lines) ==
    IF Len(lines) = 0 THEN <<>>
    ELSE IF Len(lines) = 1 THEN lines[1]
    ELSE lines[1] \o <<"\n">> \o Join(Tail(lines))

\* index of the first token of one of the kinds at or after from, 0 if none
FirstIndex(text, kinds, from) ==
    IF \E i \in from..Len(text) : text[i] \in kinds
    THEN CHOOSE i \in from..Len(text) :
            /\ text[i] \in kinds
            /\ \A j \in from..(i - 1) : text[j] \notin kinds
    ELSE 0

\* index of the first token at or after from that is not in the set, the
\* length plus one if there is none
SkipWhile(text, set, from) ==
    IF \E i \in from..Len(text) : text[i] \notin set
    THEN CHOOSE i \in from..Len(text) :
            /\ text[i] \notin set
            /\ \A j \in from..(i - 1) : text[j] \in set
    ELSE Len(text) + 1

\* text.match(/<header>:?\s*([\s\S]*?)(?=<stops>|$)/i)[1]: from the first
\* header word, past an optional colon and white space, up to the next stop
\* word or the end of the text; nothing when no header word is found
Capture(text, headers, stops) ==
    LET h == FirstIndex(text, headers, 1)
        c == IF h + 1 <= Len(text) /\ text[h + 1] = ":" THEN h + 2 ELSE h + 1
        s == SkipWhile(text, Whitespace, c)
        e == FirstIndex(text, stops, s)
    IN  IF h = 0 THEN <<>>
        ELSE SubSeq(text, s, IF e = 0 THEN Len(text) ELSE e - 1)

\* split(/\n/): the pieces between one line break, or the start of the text,
\* and the next line break, or the end of the text
Split(text) ==
    LET breaks == {0} \cup {i \in 1..Len(text) : text[i] = "\n"}
                      \cup {Len(text) + 1}
        Break(k) == CHOOSE b \in breaks :
                        Cardinality({x \in breaks : x < b}) = k
    IN  [k \in 1..(Cardinality(breaks) - 1) |->
            SubSeq(text, Break(k - 1) + 1, Break(k) - 1)]

\* index of the last token that is not white space, 0 if there is none
LastInk(line) ==
    IF \E i \in 1..Len(line) : line[i] \notin Whitespace
    THEN CHOOSE i \in 1..Len(line) :
            /\ line[i] \notin Whitespace
            /\ \A j \in (i + 1)..Len(line) : line[j] \in Whitespace
    ELSE 0

\* trim()
Trim(line) == SubSeq(line, SkipWhile(line, Whitespace, 1), LastInk(line))

\* line.trim().match(/^[-•*\d.]/)
IsBullet(line) == Len(Trim(line)) > 0 /\ Trim(line)[1] \in BulletChars

\* f.replace(/^[-•*\d.)\s]+/, '').trim()
Cleaned(line) == Trim(SubSeq(line, SkipWhile(line, StripChars, 1), Len(line)))

\* split(/\n/).filter(line => line.trim().match(...))
BulletLines(capture) == SelectSeq(Split(capture), IsBullet)

\* forEach: the cleaned bullets that are not empty, in order
Items(capture) ==
    LET cleaned == [i \in 1..Len(BulletLines(capture)) |->
                       Cleaned(BulletLines(capture)[i])]
    IN  SelectSeq(cleaned, LAMBDA c : c # <<>>)

\* steps.forEach((step, idx) => ...): reasoningSteps[`Step ${idx + 1}`] for
\* the bullets whose cleaned text is not empty
StepItems(capture) ==
    LET steps == BulletLines(capture)
    IN  [k \in {i \in 1..Len(steps) : Cleaned(steps[i]) # <<>>} |-> Cleaned(steps[k])]

\* the result with no placeholder for an empty list
OrPlaceholder_None(items, placeholder) == items

\* items.length > 0 ? items : [placeholder]
OrPlaceholder(items, placeholder) ==
    IF Len(items) > 0 THEN items ELSE <<placeholder>>

\* Object.keys(reasoningSteps).length > 0 ? reasoningSteps : { "Step 1": ... }
StepsOrPlaceholder(steps) ==
    IF DOMAIN steps # {} THEN steps ELSE [k \in {1} |-> "Analysis performed"]

\* the result of the catch block
parseGeminiResponse_Catch(text) ==
    [key_findings |-> <<"Analysis completed">>,
     reasoning_steps |-> [k \in {1} |-> "Medical report analyzed"],
     recommendations |-> <<"Clinical review recommended">>,
     full_summary |-> IF text # <<>> THEN text
                      ELSE <<"Analysis completed successfully.">>]

\* parseGeminiResponse(text), text a string: no statement of the try block
\* throws for a string, so the catch block is not entered
parseGeminiResponse(text) ==
    LET keyFindings ==
            Items(Capture(text, {KeyFindings},
                          {StepByStep, Reasoning, Recommendations}))
        reasoningSteps ==
            StepItems(Capture(text, {StepByStep, Reasoning}, {Recommendations}))
        recommendations == Items(Capture(text, {Recommendations}, {}))
    IN  [key_findings |->
             OrPlaceholder(keyFindings, "Analysis completed - see full summary"),
         reasoning_steps |-> StepsOrPlaceholder(reasoningSteps),
         recommendations |->
             OrPlaceholder(recommendations, "Further clinical correlation recommended"),
         full_summary |-> text]

\* generatedText is the text of the response, the report is being processed
ParseInit ==
    /\ Standalone
    /\ reports = [d \in DocIds |-> "processing"]
    /\ report_chunks = {}
    /\ \E lines \in SeqsUpTo(Lines, MaxLines) \cup {ScenarioLines} :
          call = [fn |-> "parseGeminiResponse", pc |-> "called",
                  reportId |-> "d1", lines |-> lines, text |-> Join(lines),
                  analysisData |-> <<>>, summaryError |-> ""]

\* const analysisData = parseGeminiResponse(generatedText)
Parse ==
    /\ call.pc = "called"
    /\ call' = [call EXCEPT !.pc = "return",
                            !.analysisData = parseGeminiResponse(call.text)]
    /\ UNCHANGED <<GEMINI_API_KEY, HUGGINGFACE_API_KEY, reports, summaries,
                   report_chunks, storage, req>>

\* summaries.upsert({report_id, ..., full_summary: analysisData.full_summary})
Store ==
    /\ call.pc = "return"
    /\ \E storeOk \in BOOLEAN :
        LET res == UpsertSummary(summaries, reports, call.reportId,
                                 call.analysisData.full_summary, storeOk)
        IN  /\ summaries' = res.rows
            /\ call' = [call EXCEPT !.pc = "stored", !.summaryError = res.error]
    /\ UNCHANGED <<GEMINI_API_KEY, HUGGINGFACE_API_KEY, reports,
                   report_chunks, storage, req>>

ParseNext == Parse \/ Store

ParseSpec == ParseInit /\ [][ParseNext]_vars

\* ---------------------------------------------------- the upload flow

\* handleUpload of the upload page, from the insert of the report row on: its
\* locals are in call, the two functions it invokes run in the slots
Invoked(fn) == \E r \in Reqs : req[r].fn = fn

\* the try block around the process-document call with an error thrown on
\* to the outer catch, which ends the flow
AfterProcess_Throw(processError) == IF processError THEN "end" ELSE "summary"

\* try { invoke('process-document') ... } catch { warn }: an error of the
\* call is logged and the flow goes on to the summary
AfterProcess(processError) == "summary"

UploadInit ==
    /\ GEMINI_API_KEY \in BOOLEAN
    /\ HUGGINGFACE_API_KEY \in BOOLEAN
    /\ reports = [d \in {} |-> "uploaded"]
    /\ summaries = {}
    /\ report_chunks = {}
    /\ storage \in [DocIds -> FileLengths]
    /\ req = [r \in Reqs |-> Idle]
    /\ call = [fn |-> "handleUpload", pc |-> "insert", reportId |-> "",
               processError |-> FALSE, summaryError |-> FALSE]

\* reports.insert([{..., status: 'uploaded'}]).select().single(); reportError
\* is thrown to the outer catch
InsertReport ==
    /\ call.fn = "handleUpload" /\ call.pc = "insert"
    /\ \E d \in DocIds \ DOMAIN reports : \E storeOk \in BOOLEAN :
        IF storeOk
        THEN /\ reports' = [x \in DOMAIN reports \cup {d} |->
                               IF x = d THEN "uploaded" ELSE reports[x]]
             /\ call' = [call EXCEPT !.pc = "process", !.reportId = d]
        ELSE /\ UNCHANGED reports
             /\ call' = [call EXCEPT !.pc = "end"]
    /\ UNCHANGED <<GEMINI_API_KEY, HUGGINGFACE_API_KEY, summaries,
                   report_chunks, storage, req>>

\* supabase.functions.invoke('process-document', {body: {reportId}}): the
\* request reaches the function
InvokeProcessDocument(r) ==
    /\ call.fn = "handleUpload" /\ call.pc = "process"
    /\ ~Invoked("process-document")
    /\ ProcessDocument(r, call.reportId)

\* the awaited call is over: the function has answered, or the request did
\* not reach it; processError is set for an answer that is not a 2xx
ProcessReturned ==
    /\ call.fn = "handleUpload" /\ call.pc = "process"
    /\ \E processError \in BOOLEAN :
        /\ IF Invoked("process-document")
           THEN \E r \in Reqs :
                    /\ At(r, "process-document", "done")
                    /\ processError = (req[r].response.status # 200)
           ELSE processError
        /\ call' = [call EXCEPT !.pc = AfterProcess(processError),
                                !.processError = processError]
    /\ UNCHANGED <<GEMINI_API_KEY, HUGGINGFACE_API_KEY, reports, summaries,
                   report_chunks, storage, req>>

\* supabase.functions.invoke(EDGE_FUNCTIONS.GENERATE_SUMMARY, {body: {reportId}})
InvokeGenerateSummary(r) ==
    /\ call.fn = "handleUpload" /\ call.pc = "summary"
    /\ ~Invoked("generate-summary")
    /\ GenerateSummary(r, call.reportId)

\* the awaited call is over; on summaryError a toast, else the summary page
SummaryReturned ==
    /\ call.fn = "handleUpload" /\ call.pc = "summary"
    /\ \E summaryError \in BOOLEAN :
        /\ IF Invoked("generate-summary")
           THEN \E r \in Reqs :
                    /\ At(r, "generate-summary", "done")
                    /\ summaryError = (req[r].response.status # 200)
           ELSE summaryError
        /\ call' = [call EXCEPT !.pc = "end", !.summaryError = summaryError]
    /\ UNCHANGED <<GEMINI_API_KEY, HUGGINGFACE_API_KEY, reports, summaries,
                   report_chunks, storage, req>>

UploadNext ==
    \/ InsertReport
    \/ \E r \in Reqs : InvokeProcessDocument(r)
    \/ ProcessReturned
    \/ \E r \in Reqs : InvokeGenerateSummary(r)
    \/ SummaryReturned
    \/ Work

UploadSpec == UploadInit /\ [][UploadNext]_vars

\* ------------------------------------------------------------- claims

InFlight(r) == req[r].pc \notin {"idle", "done"}

Done(r, fn) == req[r].fn = fn /\ req[r].pc = "done"

\* the request in slot r takes a step
Steps(r) == req'[r] # req[r]

\* no other request of the same function for the report of r is in flight
AloneOnReport(r) ==
    \A o \in Reqs \ {r} :
        ~(InFlight(o) /\ req[o].fn = req[r].fn
                      /\ req[o].reportId = req[r].reportId)

SummariesOf(rows, d) == {x \in rows : x.report_id = d}

ChunksOf(rows, d) == {x \in rows : x.report_id = d}

IndicesOf(rows, d) == {x.chunk_index : x \in ChunksOf(rows, d)}

\* C1: when generate-summary is invoked for a report that already has a
\* Summary (a second invocation, no other request for the report in flight)
\* and the data store is available, the persist step leaves exactly one
\* Summary row for the report and its content is that of this invocation.
C1_RegenerateOverwrites ==
    [][\A r \in Reqs :
        (/\ At(r, "generate-summary", "persist")
         /\ Steps(r)
         /\ AloneOnReport(r)
         /\ SummariesOf(summaries, req[r].reportId) # {}
         /\ req'[r].response.error # StoreError)
        => \E x \in summaries' :
              /\ SummariesOf(summaries', req[r].reportId) = {x}
              /\ x.full_summary = req[r].generatedText]_vars

\* C2: a generate-summary request that fails after it has set the status to
\* processing (at the generative call or at the persist step) returns an
\* error and does not leave the status of its report at processing.
C2_NoStuckProcessing ==
    \A r \in Reqs :
        (/\ Done(r, "generate-summary")
         /\ req[r].ended \in {"generate", "persist"}
         /\ AloneOnReport(r))
        => /\ req[r].response.status = 500
           /\ reports[req[r].reportId] # "processing"

\* a terminated generate-summary request that executed the persist step
ReachedPersist(r) ==
    Done(r, "generate-summary") /\ req[r].ended \in {"persist", "completed"}

\* a terminated generate-summary request whose persist step was answered by
\* the data store (with success or with a constraint violation)
PersistAnswered(r) ==
    /\ ReachedPersist(r)
    /\ ~(req[r].ended = "persist" /\ req[r].response.error = StoreError)

\* C3 (as claimed): at most one Summary row per report in every state, and
\* when two generate-summary requests for one report have both terminated
\* and one of them reached the persist step, exactly one row exists.
C3_SingleSummaryOriginal ==
    /\ \A d \in DocIds : Cardinality(SummariesOf(summaries, d)) <= 1
    /\ \A r1, r2 \in Reqs :
        (/\ r1 # r2
         /\ Done(r1, "generate-summary") /\ Done(r2, "generate-summary")
         /\ req[r1].reportId = req[r2].reportId
         /\ ReachedPersist(r1))
        => Cardinality(SummariesOf(summaries, req[r1].reportId)) = 1

\* C3 (amended): at most one Summary row per report in every state, and when
\* two generate-summary requests for one report have both terminated and
\* the persist step of one of them was answered by the data store, exactly
\* one row exists.
C3_SingleSummary ==
    /\ \A d \in DocIds : Cardinality(SummariesOf(summaries, d)) <= 1
    /\ \A r1, r2 \in Reqs :
        (/\ r1 # r2
         /\ Done(r1, "generate-summary") /\ Done(r2, "generate-summary")
         /\ req[r1].reportId = req[r2].reportId
         /\ PersistAnswered(r1))
        => Cardinality(SummariesOf(summaries, req[r1].reportId)) = 1

\* two requests for one report have terminated, one stored the Summary and
\* the other was refused by the unique constraint
C3_Witness ==
    \E r1, r2 \in Reqs :
        /\ r1 # r2
        /\ Done(r1, "generate-summary") /\ Done(r2, "generate-summary")
        /\ req[r1].reportId = req[r2].reportId
        /\ req[r1].ended = "completed"
        /\ req[r2].ended = "persist" /\ req[r2].response.error = UniqueViolation
        /\ Cardinality(SummariesOf(summaries, req[r1].reportId)) = 1

\* the stage that follows each best-effort stage
StageAfter(pc) ==
    IF pc = "fetch" THEN "retrieve"
    ELSE IF pc = "retrieve" THEN "augment"
    ELSE "generate"

\* C4: a step of a best-effort stage (content fetch, context retrieval,
\* insight augmentation), whatever the outcome of its external call, takes
\* the request to the next stage with no response and no change to the
\* tables, a failed retrieval leaving the context empty; so the request gets
\* to the generate stage, and a request ends only at the load, generate or
\* persist stage (with an error) or after the status update (with success).
C4_BestEffortStages ==
    [][\A r \in Reqs :
        /\ (/\ req[r].fn = "generate-summary"
            /\ req[r].pc \in {"fetch", "retrieve", "augment"}
            /\ Steps(r))
           => /\ req'[r].pc = StageAfter(req[r].pc)
              /\ req'[r].response = NoResponse
              /\ req'[r].rag = "raised" => req'[r].retrievedContext = <<>>
              /\ UNCHANGED <<reports, summaries, report_chunks>>
        /\ Done(r, "generate-summary")
           => /\ req[r].ended \in {"load", "generate", "persist", "completed"}
              /\ req[r].response.status = 500 <=> req[r].ended # "completed"]_vars

\* a request is about to call the generative model although the download
\* failed and retrieveContext raised
C4_Witness ==
    \E r \in Reqs :
        /\ At(r, "generate-summary", "generate")
        /\ GEMINI_API_KEY
        /\ req[r].reportContent = 0
        /\ req[r].rag = "raised"
        /\ req[r].retrievedContext = <<>>

\* C5: without the Gemini key, process-document reports zero chunks and
\* writes nothing, and generate-summary does not fail for lack of the key.
C5_DegradedMode ==
    ~GEMINI_API_KEY =>
        \A r \in Reqs :
            /\ Done(r, "process-document")
               => /\ req[r].response = ProcessResponse(0, FALSE)
                  /\ report_chunks = {}
            /\ Done(r, "generate-summary")
               => req[r].response.error # KeyMissing

\* C6: an ingestion run that aborts on an embedding error reports a failure
\* and leaves no fragment of its report stored, and a summarization request
\* for the report then gets to the generative call with no retrieved context.
C6_EmbeddingOutage ==
    \A r \in Reqs :
        (/\ Done(r, "process-document")
         /\ req[r].ended = "chunk"
         /\ req[r].response.error = GeminiError)
        => /\ req[r].response.status = 500
           /\ ChunksOf(report_chunks, req[r].reportId) = {}
           /\ \A o \in Reqs :
                (At(o, "generate-summary", "generate")
                    /\ req[o].reportId = req[r].reportId)
                => req[o].retrievedContext = <<>>

\* the (index, offsets) of the chunks of a text of the given length
FragmentSet(len) ==
    LET chunks == chunkText(len, ChunkSize, ChunkOverlap)
    IN  {[chunk_index |-> chunks[i].index,
          start_char |-> chunks[i].start_char,
          end_char |-> chunks[i].end_char] : i \in 1..Len(chunks)}

\* the (index, offsets) of the rows stored for a report
StoredFragments(rows, d) ==
    {[chunk_index |-> x.chunk_index,
      start_char |-> x.start_char,
      end_char |-> x.end_char] : x \in ChunksOf(rows, d)}

\* the rows of a report are one complete set: all chunks of its file, or all
\* chunks of the sample text, each once
CompleteSet(rows, d) ==
    /\ StoredFragments(rows, d) \in {FragmentSet(storage[d]), FragmentSet(SampleLength)}
    /\ Cardinality(ChunksOf(rows, d)) = Cardinality(StoredFragments(rows, d))

\* C7: an ingestion run that finds fragments of its report stored before it
\* has written any, runs with no other run for the report in flight and is
\* not stopped by a failing external call, ends with the report holding
\* exactly one complete fragment set.
C7_ReingestionSupersedes ==
    [][\A r \in Reqs :
        (/\ At(r, "process-document", "chunk")
         /\ req[r].next = 0
         /\ AloneOnReport(r)
         /\ ChunksOf(report_chunks, req[r].reportId) # {}
         /\ req'[r].pc = "done"
         /\ req'[r].response.error \notin {StoreError, GeminiError})
        => CompleteSet(report_chunks', req[r].reportId)]_vars

\* C8 (as claimed): no retrieveContext call ends with an exception.
C8_RetrieveNeverRaises ==
    \A r \in Reqs : req[r].rag # "raised"

\* C8 (amended): retrieveContext raises when the embedding call fails, and
\* the handler that called it goes on with an empty context; when the
\* similarity query fails retrieveContext returns the empty string.
C8_RetrieveDegrades ==
    /\ \A d \in DocIds, embedOk, rpcOk \in BOOLEAN :
       \A chunks \in search_similar_chunks(report_chunks, MatchThreshold,
                                           MatchCount, d) :
          LET out == retrieveContext(embedOk, rpcOk, chunks)
          IN  /\ out.raised <=> ~embedOk
              /\ ~embedOk \/ ~rpcOk => out.context = <<>>
    /\ \A r \in Reqs :
          req[r].rag = "raised"
          => /\ req[r].pc \in {"augment", "generate"}
             /\ req[r].retrievedContext = <<>>

\* a handler has caught the exception of retrieveContext and goes on
C8_Witness ==
    \E r \in Reqs :
        /\ At(r, "generate-summary", "augment")
        /\ req[r].rag = "raised"
        /\ req[r].retrievedContext = <<>>

\* C9: a generate-summary request for an id no report has ends at the load
\* with an error, and its step changes no report, summary or chunk; no
\* request for such an id is ever past the load.
C9_MissingDocument ==
    [][\A r \in Reqs :
        /\ (/\ Free(r)
            /\ Steps(r)
            /\ req'[r].fn = "generate-summary"
            /\ req'[r].reportId \notin DOMAIN reports)
           => /\ req'[r].pc = "done"
              /\ req'[r].ended = "load"
              /\ req'[r].response.status = 500
              /\ UNCHANGED <<reports, summaries, report_chunks>>
        /\ (req[r].fn = "generate-summary" /\ req[r].reportId \notin DOMAIN reports)
           => req[r].pc = "done" /\ req[r].ended = "load"]_vars

\* a request for a missing report was answered with the load error
C9_Witness ==
    \E r \in Reqs :
        /\ Done(r, "generate-summary")
        /\ req[r].reportId \notin DOMAIN reports
        /\ req[r].response = ErrorResponse(NotFound)
        /\ summaries = {} /\ report_chunks = {}

\* C10: no two rows of report_chunks have the same report_id and chunk_index.
C10_UniqueChunkIndex ==
    \A x, y \in report_chunks :
        (x.report_id = y.report_id /\ x.chunk_index = y.chunk_index) => x = y

\* two runs for one report are in their loops and one has stored a chunk
C10_Witness ==
    \E r1, r2 \in Reqs :
        /\ r1 # r2
        /\ At(r1, "process-document", "chunk")
        /\ At(r2, "process-document", "chunk")
        /\ req[r1].reportId = req[r2].reportId
        /\ req[r1].next = 1 /\ req[r2].next = 0
        /\ ChunksOf(report_chunks, req[r1].reportId) # {}

\* C11: at the step with which a process-document run reports success with
\* RAG enabled, the rows stored for its report have exactly the chunk
\* indices 0..chunks_processed-1, one row each.
C11_SuccessStoresAllIndices ==
    [][\A r \in Reqs :
        (/\ req[r].fn = "process-document"
         /\ Steps(r)
         /\ req'[r].pc = "done"
         /\ req'[r].response.status = 200
         /\ req'[r].response.rag_enabled)
        => /\ IndicesOf(report_chunks', req[r].reportId)
                = 0..(req'[r].response.chunks_processed - 1)
           /\ Cardinality(ChunksOf(report_chunks', req[r].reportId))
                = req'[r].response.chunks_processed]_vars

\* a chunkText call has returned
Returned == call.pc = "return"

\* ceil(a / b) for b > 0
CeilDiv(a, b) == -((-a) \div b)

\* C12: a non-empty text shorter than the chunk size, chunked with an overlap
\* above 0 and below the size, gives exactly one fragment, from offset 0 to
\* the length of the text.
C12_ShortTextOneFragment ==
    (/\ Returned
     /\ 0 < call.overlap
     /\ 0 < call.text /\ call.text < call.chunkSize)
    => call.chunks = <<[index |-> 0, start_char |-> 0,
                        end_char |-> call.text, length |-> call.text]>>

\* C13: a non-empty text of N characters chunked with size C and overlap O,
\* 0 < O < C, gives ceil((N - O) / (C - O)) fragments, and at least 1.
C13_FragmentCount ==
    (Returned /\ 0 < call.overlap /\ 0 < call.text)
    => LET n == CeilDiv(call.text - call.overlap, call.chunkSize - call.overlap)
       IN  Len(call.chunks) = IF n < 1 THEN 1 ELSE n

\* C14: the spans of the fragments leave no character of the text out: a
\* non-empty text has a fragment, the first fragment starts at 0, every
\* other one starts at or before the end of the one before it, and the last
\* one ends at the length of the text.
C14_Coverage ==
    Returned =>
        LET chunks == call.chunks
            n == Len(chunks)
        IN  /\ call.text > 0 => n > 0
            /\ n > 0 => chunks[1].start_char = 0 /\ chunks[n].end_char = call.text
            /\ \A k \in 2..n : chunks[k].start_char <= chunks[k - 1].end_char
            /\ \A p \in 0..(call.text - 1) :
                  \E k \in 1..n : chunks[k].start_char <= p /\ p < chunks[k].end_char

\* a call returned several fragments, each overlapping the one before it
C14_Witness ==
    /\ Returned
    /\ Len(call.chunks) >= 3
    /\ \A k \in 2..Len(call.chunks) :
          call.chunks[k].start_char < call.chunks[k - 1].end_char

\* C15: the window starts at 0 and moves by size - overlap while its start
\* is below the length of the text: the fragments are those of the i >= 0
\* with i * (size - overlap) below the length, fragment i has index i, start
\* i * (size - overlap) and end min(start + size, length); 2400 characters
\* with size 1000 and overlap 200 give [0,1000), [800,1800), [1600,2400).
C15_SlidingWindow ==
    /\ call.fn = "chunkText"
       => /\ call.startIndex = call.chunkIndex * (call.chunkSize - call.overlap)
          /\ Len(call.chunks) = call.chunkIndex
    /\ Returned =>
        LET stride == call.chunkSize - call.overlap
            chunks == call.chunks
        IN  /\ Len(chunks) = Cardinality({i \in 0..call.text : i * stride < call.text})
            /\ \A k \in 1..Len(chunks) :
                  /\ chunks[k].index = k - 1
                  /\ chunks[k].start_char = (k - 1) * stride
                  /\ chunks[k].end_char = Min(chunks[k].start_char + call.chunkSize,
                                              call.text)
            /\ (call.text = 2400 /\ call.chunkSize = 1000 /\ call.overlap = 200)
               => /\ Len(chunks) = 3
                  /\ <<chunks[1].start_char, chunks[1].end_char>> = <<0, 1000>>
                  /\ <<chunks[2].start_char, chunks[2].end_char>> = <<800, 1800>>
                  /\ <<chunks[3].start_char, chunks[3].end_char>> = <<1600, 2400>>

\* the call of the scenario has returned its three fragments
C15_Witness ==
    /\ Returned
    /\ call.text = 2400 /\ call.chunkSize = 1000 /\ call.overlap = 200
    /\ Len(call.chunks) = 3

\* C16: with overlap below size every chunkText call returns: each iteration
\* moves the window start forward, no call needs more iterations than the
\* text has characters, and the call gets to its return.
C16_Terminates ==
    /\ [][call'.pc = "while" /\ call' # call
            => call'.startIndex > call.startIndex]_vars
    /\ [](call.fn = "chunkText" => call.chunkIndex <= call.text)
    /\ <>Returned

\* a call has returned after more than two iterations
C16_Witness ==
    /\ Returned
    /\ call.chunkIndex > 2
    /\ call.startIndex >= call.text

\* a similarity query has been answered
Queried == call.fn \in {"search_similar_chunks", "retrieveContext"}

\* the rows of the table a query with the arguments may return
Qualifying(rows, args) ==
    {x \in rows :
        /\ (args.filter_report_id = "NULL" \/ x.report_id = args.filter_report_id)
        /\ x.similarity > args.match_threshold}

\* the similarities of a result, in its order
Similarities(chunks) == [i \in 1..Len(chunks) |-> chunks[i].similarity]

\* C17: every row a similarity query returns has a similarity strictly above
\* the threshold of the query; no returned row has the threshold itself.
C17_AboveThreshold ==
    Queried =>
        \A i \in 1..Len(call.chunks) :
            /\ call.chunks[i].similarity > call.args.match_threshold
            /\ call.chunks[i].similarity # call.args.match_threshold

\* a query returned rows of a report that also has a row whose similarity is
\* the threshold
C17_Witness ==
    /\ Queried
    /\ Len(call.chunks) > 0
    /\ \E x \in report_chunks :
          /\ x.report_id = call.args.filter_report_id
          /\ x.similarity = call.args.match_threshold

Parsed == call.fn = "parseGeminiResponse" /\ call.pc \in {"return", "stored"}

\* the tokens of a text
TokensIn(text) == {text[i] : i \in 1..Len(text)}

\* the lines of a response that are bullet lines with an item
ItemLines == {Bullet(item) : item \in ItemTexts \cup {<<"c">>}}

\* C20: for every response text the parsed result has at least one key
\* finding, one reasoning step and one recommendation; a section whose
\* header word the text does not have, and every section of a text that has
\* no bullet line with an item, is its single placeholder; the step of a
\* call is its return with a result.
C20_SectionsNeverEmpty ==
    /\ [](Parsed =>
            LET data == call.analysisData
                tokens == TokensIn(call.text)
                noItem == \A i \in 1..Len(call.lines) :
                              call.lines[i] \notin ItemLines
            IN  /\ Len(data.key_findings) > 0
                /\ DOMAIN data.reasoning_steps # {}
                /\ Len(data.recommendations) > 0
                /\ (KeyFindings \notin tokens \/ noItem)
                   => data.key_findings
                        = <<"Analysis completed - see full summary">>
                /\ (tokens \cap {StepByStep, Reasoning} = {} \/ noItem)
                   => data.reasoning_steps
                        = [k \in {1} |-> "Analysis performed"]
                /\ (Recommendations \notin tokens \/ noItem)
                   => data.recommendations
                        = <<"Further clinical correlation recommended">>)
    /\ [][(call.fn = "parseGeminiResponse" /\ call.pc = "called")
            => (call'.pc = "return" /\ call'.analysisData # <<>>)]_vars

\* a response with no header and one with headers but no bullet were parsed
\* into the three placeholders
C20_Witness ==
    /\ Parsed
    /\ call.lines \in {<<<<"p">>, Bullet(<<"a">>)>>, <<HeaderKF, <<"p">>, HeaderRC>>}
    /\ call.analysisData.key_findings = <<"Analysis completed - see full summary">>
    /\ call.analysisData.reasoning_steps = [k \in {1} |-> "Analysis performed"]
    /\ call.analysisData.recommendations
          = <<"Further clinical correlation recommended">>

\* the summary of the parsed response was stored
Stored ==
    call.fn = "parseGeminiResponse" /\ call.pc = "stored" /\ call.summaryError = ""

\* C21: for every response text the full_summary of the parsed result is
\* the text itself, token for token, and once the result was stored the
\* report has one summary row, whose full_summary is that text.
C21_FullSummaryVerbatim ==
    /\ Parsed => call.analysisData.full_summary = call.text
    /\ Stored =>
        /\ SummariesOf(summaries, call.reportId) # {}
        /\ \A row \in SummariesOf(summaries, call.reportId) :
              row.full_summary = call.text

\* a response in which the parser finds no section was stored whole, and so
\* was an empty response
C21_Witness ==
    /\ Stored
    /\ call.lines \in {<<<<"p">>, <<"-", "-", "-">>>>, <<>>}
    /\ call.analysisData.key_findings = <<"Analysis completed - see full summary">>
    /\ \E row \in summaries : row.report_id = "d1" /\ row.full_summary = call.text

\* the lines from..to of a response
LinesFrom(lines, from, to) == SubSeq(lines, from, to)

\* the item of a bullet line: the line without its marker "- "
ItemOf(line) == SubSeq(line, 3, Len(line))

\* the items of bullet lines, in order
ItemsOf(lines) == [i \in 1..Len(lines) |-> ItemOf(lines[i])]

\* every line is a bullet line with an item, and there is one
AllItemLines(lines) ==
    Len(lines) > 0 /\ \A i \in 1..Len(lines) : lines[i] \in ItemLines

\* C22: a response made of the Key Findings header, bullet lines, the
\* Recommendations header and bullet lines, with the word reasoning nowhere
\* in it, is parsed into the items of the first bullets as key_findings,
\* the items of the second bullets as recommendations, both in order, and
\* the single placeholder "Step 1" as reasoning_steps.
C22_TwoSections ==
    Parsed =>
        \A h \in 1..Len(call.lines) :
            LET first == LinesFrom(call.lines, 2, h - 1)
                second == LinesFrom(call.lines, h + 1, Len(call.lines))
            IN  (/\ call.lines[1] = HeaderKF
                 /\ call.lines[h] = HeaderRC
                 /\ AllItemLines(first)
                 /\ AllItemLines(second)
                 /\ TokensIn(call.text) \cap {StepByStep, Reasoning} = {})
                => /\ call.analysisData.key_findings = ItemsOf(first)
                   /\ call.analysisData.recommendations = ItemsOf(second)
                   /\ call.analysisData.reasoning_steps
                        = [k \in {1} |-> "Analysis performed"]

\* C23: for every response the labels of reasoning_steps are "Step 1" to
\* "Step n" with none left out, n the number of steps kept.
C23_SequentialLabels ==
    Parsed =>
        LET labels == DOMAIN call.analysisData.reasoning_steps
        IN  labels = 1..Cardinality(labels)

\* slot r runs or starts a step of process-document
IngestionSteps(r) == Steps(r) /\ req'[r].fn = "process-document"

Becomes(d, st) ==
    /\ d \in DOMAIN reports
    /\ reports[d] # st
    /\ reports'[d] = st

\* C25: a report whose status is completed has a summary row; the status
\* becomes completed only in the step of a summarization request that
\* follows its successful persist, with the row stored, and becomes
\* processing only in the step of a request that has done no retrieval
\* or generation yet.
C25_CompletedAfterPersist ==
    /\ [](\A d \in DOMAIN reports :
            reports[d] = "completed" => SummariesOf(summaries, d) # {})
    /\ [][\A d \in DocIds :
            /\ Becomes(d, "completed") =>
                /\ SummariesOf(summaries, d) # {}
                /\ \E r \in Reqs :
                      /\ At(r, "generate-summary", "completed")
                      /\ req[r].reportId = d
                      /\ Steps(r)
            /\ Becomes(d, "processing") =>
                \E r \in Reqs :
                    /\ At(r, "generate-summary", "processing")
                    /\ req[r].reportId = d
                    /\ req[r].generatedText = 0
                    /\ Steps(r)]_vars

\* a request has persisted the summary, set the status and answered
C25_Witness ==
    /\ "d1" \in DOMAIN reports
    /\ reports["d1"] = "completed"
    /\ SummariesOf(summaries, "d1") # {}
    /\ \E r \in Reqs :
          /\ Done(r, "generate-summary")
          /\ req[r].ended = "completed"
          /\ req[r].response.status = 200

\* the rows this step adds to report_chunks
NewChunks == report_chunks' \ report_chunks

\* C26: an ingestion run writes its fragments one at a time in ascending
\* index order and stops at the first failure: the run starts at index 0
\* having written nothing; a step of its loop at index k writes at most the
\* one fragment k of its report; the loop moves on, to k + 1, only when
\* fragment k was written; a step that writes nothing ends the run with an
\* error; and fragments are written by no other step. So the indices a run
\* has written when it is at index k are 0..k-1, and none follows a failure.
C26_AscendingAbortOnFailure ==
    [][/\ \A r \in Reqs :
            IngestionSteps(r) =>
                IF At(r, "process-document", "chunk")
                THEN /\ Cardinality(NewChunks) <= 1
                     /\ report_chunks \subseteq report_chunks'
                     /\ \A x \in NewChunks :
                           /\ x.report_id = req[r].reportId
                           /\ x.chunk_index = req[r].next
                     /\ req'[r].pc = "chunk" =>
                           /\ NewChunks # {}
                           /\ req'[r].next = req[r].next + 1
                     /\ NewChunks = {} =>
                           /\ req'[r].pc = "done"
                           /\ req'[r].response.status = 500
                ELSE /\ report_chunks' = report_chunks
                     /\ req'[r].pc = "chunk" => req'[r].next = 0
       /\ report_chunks' # report_chunks =>
            \E r \in Reqs :
                At(r, "process-document", "chunk") /\ IngestionSteps(r)]_vars

\* a run has ended with an error in its loop and fragment 0 of its report,
\* and no other, is stored
C26_Witness ==
    \E r \in Reqs :
        /\ Done(r, "process-document")
        /\ req[r].ended = "chunk"
        /\ req[r].response.status = 500
        /\ IndicesOf(report_chunks, req[r].reportId) = {0}

\* C27: when an ingestion run of a report that had no fragment when the run
\* started ends in its loop, with success or with an error, the report has
\* no fragment or one complete set. Runs come one after the other, so the
\* report had no fragment at the start exactly when all its fragments are
\* those of the loop positions the run has passed.
C27_BatchOrNothing ==
    [][\A r \in Reqs :
        (/\ At(r, "process-document", "chunk")
         /\ Cardinality(ChunksOf(report_chunks, req[r].reportId)) = req[r].next
         /\ req'[r].pc = "done")
        => \/ ChunksOf(report_chunks', req[r].reportId) = {}
           \/ CompleteSet(report_chunks', req[r].reportId)]_vars

\* the upload flow is at, or has passed, the call of generate-summary
AtSummary == call.fn = "handleUpload" /\ call.pc \in {"summary", "end"}

\* C28: in the upload flow a function is invoked only for the report whose
\* row the flow has created; generate-summary is invoked only when the call
\* of process-document is over, with no run of it in flight; and whatever the
\* outcome of that call, an error included, the flow goes on to the call of
\* generate-summary, which can then be made.
C28_UploadOrder ==
    /\ [](\A r \in Reqs :
            /\ req[r].fn # "none" =>
                  /\ call.reportId \in DOMAIN reports
                  /\ req[r].reportId = call.reportId
                  /\ call.pc # "insert"
            /\ req[r].fn = "generate-summary" =>
                  /\ AtSummary
                  /\ \A o \in Reqs :
                        req[o].fn = "process-document" => req[o].pc = "done")
    /\ []((call.pc = "summary" /\ ~Invoked("generate-summary"))
            => ENABLED (\E r \in Reqs : InvokeGenerateSummary(r)))
    /\ [][(call.pc = "process" /\ call'.pc # "process")
            => call'.pc = "summary"]_vars

\* process-document has answered with an error and generate-summary was
\* invoked after it
C28_Witness ==
    /\ call.fn = "handleUpload"
    /\ call.processError
    /\ \E r \in Reqs :
          /\ Done(r, "process-document")
          /\ req[r].response.status = 500
    /\ \E r \in Reqs :
          /\ req[r].fn = "generate-summary"
          /\ req[r].reportId = call.reportId

\* slot r runs or starts a step of generate-summary
SummarizationSteps(r) == Steps(r) /\ req'[r].fn = "generate-summary"

\* C29: a summarization request that ends with an error has left the summary
\* rows as they were: the only step of a request that changes a row is its
\* persist step when the store accepts the summary, the request then goes on
\* to the status write, and from there it ends with a success response.
C29_ErrorKeepsSummary ==
    [][\A r \in Reqs :
        SummarizationSteps(r) =>
            /\ summaries' # summaries =>
                  /\ At(r, "generate-summary", "persist")
                  /\ req'[r].pc = "completed"
            /\ (req'[r].pc = "done" /\ req'[r].response.status # 200) =>
                  /\ summaries' = summaries
                  /\ req[r].pc # "completed"]_vars

\* a request for a report that has its summary has ended with an error at
\* the persist step, and the row is the one stored before
C29_Witness ==
    \E r \in Reqs :
        /\ Done(r, "generate-summary")
        /\ req[r].ended = "persist"
        /\ req[r].response.status = 500
        /\ \E row \in summaries : SummariesOf(summaries, req[r].reportId) = {row}

\* C30: when a summarization request answers with success and no other
\* request is in flight, the status of its report is completed and the one
\* summary row of the report holds the summary of the response, whether or
\* not the store has accepted the writes of the status.
C30_SuccessMeansCompleted ==
    [][\A r \in Reqs :
        (/\ SummarizationSteps(r)
         /\ req'[r].pc = "done"
         /\ req'[r].response.status = 200
         /\ \A o \in Reqs \ {r} : ~InFlight(o))
        => /\ reports'[req'[r].reportId] = "completed"
           /\ \E row \in summaries' :
                 /\ SummariesOf(summaries', req'[r].reportId) = {row}
                 /\ row.full_summary = req'[r].response.summary]_vars

====
